---- MODULE Spec2Model ----
(***************************************************************************)
(* Model of src/app.py: the ingredient normaliser of the search button     *)
(* handler and the recommendation engine rekomendasi_resep.                *)
(*                                                                         *)
(* A Python str is a sequence of one-character strings, so that strip,     *)
(* lower, split and the lexicographic order of sorted() are computed.      *)
(* A score skor_cocok_persen is kept in hundredths of a percent (3333 for  *)
(* 33.33).                                                                 *)
(***************************************************************************)
EXTENDS Integers, Sequences, FiniteSets, TLC

VARIABLES
  df_resep,          \* the catalogue: sequence of rows (app.py:97)
  aturan_asosiasi,   \* the rule table, in dict order: sequence of <<key, consequent>>
  hashseed,          \* the string hash seed of the interpreter, drawn at process start
  input_bahan_str,   \* the content of the text area (app.py:119)
  bahan_saya,        \* argument of rekomendasi_resep: list of str
  top_n,             \* argument of rekomendasi_resep
  pc,                \* "siap" | "selesai" | "peringatan"
  rekomendasi,       \* the list the last call returned
  jejak,             \* catalogue row and rule indices behind each returned entry
  sebelum            \* <<>> or <<r>>: what the previous call with these inputs returned

vars == <<df_resep, aturan_asosiasi, hashseed, input_bahan_str, bahan_saya,
          top_n, pc, rekomendasi, jejak, sebelum>>

-----------------------------------------------------------------------------
(* Bounds *)

MaxRecipes == 2
MaxUser == 2
MaxNeg == 1
MaxTopN == 2
MaxRules == 3
MaxResepSaran == 1
MaxLen == 4

-----------------------------------------------------------------------------
(* Python str and list primitives *)

Range(s) == {s[i] : i \in DOMAIN s}

Min(a, b) == IF a < b THEN a ELSE b

Max(a, b) == IF a > b THEN a ELSE b

\* ord(c) for the characters of the alphabet of the model.
Ord(c) ==
  CASE c = "\n" -> 10
    [] c = " " -> 32
    [] c = "," -> 44
    [] c = "A" -> 65
    [] c = "B" -> 66
    [] c = "a" -> 97
    [] c = "b" -> 98
    [] c = "c" -> 99
    [] c = "d" -> 100
    [] c = "e" -> 101

\* str.isspace for one character.
IsSpace(c) == c \in {" ", "\n"}

LowerChar(c) == IF c = "A" THEN "a" ELSE IF c = "B" THEN "b" ELSE c

\* str.lower
lower(s) == [i \in DOMAIN s |-> LowerChar(s[i])]

\* str.strip: drop leading and trailing whitespace.
strip(s) ==
  LET keep == {i \in DOMAIN s : ~IsSpace(s[i])}
  IN  IF keep = {} THEN <<>>
      ELSE LET lo == CHOOSE i \in keep : \A j \in keep : i <= j
               hi == CHOOSE i \in keep : \A j \in keep : i >= j
           IN  SubSeq(s, lo, hi)

\* re.split(r'[...]', s) and str.split(sep): the fragments between separators,
\* empty fragments kept; one more fragment than there are separators.
RECURSIVE split(_, _)
split(s, seps) ==
  LET at == {i \in DOMAIN s : s[i] \in seps}
  IN  IF at = {} THEN <<s>>
      ELSE LET i == CHOOSE k \in at : \A j \in at : k <= j
           IN  <<SubSeq(s, 1, i - 1)>> \o split(SubSeq(s, i + 1, Len(s)), seps)

\* s < t for Python str: lexicographic by code point.
StrLess(s, t) ==
  \E k \in 1..(Len(t)) :
     /\ \A j \in 1..(k - 1) : j <= Len(s) /\ s[j] = t[j]
     /\ k - 1 <= Len(s)
     /\ (k > Len(s) \/ Ord(s[k]) < Ord(t[k]))

\* sorted(list(S)) for a set of str.
RECURSIVE sorted(_)
sorted(S) ==
  IF S = {} THEN <<>>
  ELSE LET m == CHOOSE x \in S : \A y \in S : y = x \/ StrLess(x, y)
       IN  <<m>> \o sorted(S \ {m})

RECURSIVE reversed(_)
reversed(s) == IF s = <<>> THEN <<>> ELSE Append(reversed(Tail(s)), Head(s))

\* Iteration order of a set of str. It follows the hashes of the strings, which
\* the interpreter salts with a per-process random seed: the order is fixed
\* within one process and differs between processes.
Seeds == {0, 1}

iter_set(S, seed) == IF seed = 0 THEN sorted(S) ELSE reversed(sorted(S))

\* sep.join(parts)
RECURSIVE join(_, _)
join(parts, sep) ==
  IF parts = <<>> THEN <<>>
  ELSE IF Len(parts) = 1 THEN parts[1]
  ELSE parts[1] \o sep \o join(Tail(parts), sep)

\* lst[:n], n of either sign.
slice_to(lst, n) ==
  IF n >= 0 THEN SubSeq(lst, 1, Min(n, Len(lst)))
  ELSE SubSeq(lst, 1, Max(Len(lst) + n, 0))

-----------------------------------------------------------------------------
(* The normaliser of the search button, app.py:131 *)

\* The normaliser without its .lower().
normalisasi_tanpa_lower(s) ==
  LET potongan == split(s, {",", "\n"})
      ada == SelectSeq(potongan, LAMBDA bahan : strip(bahan) # <<>>)
  IN  [i \in DOMAIN ada |-> strip(ada[i])]

\* [bahan.strip().lower() for bahan in re.split(r'[,\n]', s) if bahan.strip()]
normalisasi(s) ==
  LET potongan == split(s, {",", "\n"})
      ada == SelectSeq(potongan, LAMBDA bahan : strip(bahan) # <<>>)
  IN  [i \in DOMAIN ada |-> lower(strip(ada[i]))]

-----------------------------------------------------------------------------
(* rekomendasi_resep, app.py:37-91 *)

BatasSaran == 2

\* line 41
bahan_saya_set(saya) == {lower(strip(saya[i])) : i \in DOMAIN saya}

\* line 47
bahan_resep_set(row) == Range(row.bahan)

\* line 50
bahan_cocok(saya, row) == bahan_saya_set(saya) \cap bahan_resep_set(row)

\* The difference taken against the list as given, not the normalised set.
bahan_kurang_mentah(saya, row) == bahan_resep_set(row) \ Range(saya)

\* line 51
bahan_kurang(saya, row) == bahan_resep_set(row) \ bahan_saya_set(saya)

\* The test of line 58 written as skor_cocok >= 0.
skor_tak_negatif(saya, row) == Cardinality(bahan_cocok(saya, row)) >= 0

\* lines 53-58: skor_cocok > 0, where skor_cocok is len(cocok)/len(resep),
\* or 0 for a recipe without ingredients.
skor_positif(saya, row) ==
  /\ Cardinality(bahan_resep_set(row)) > 0
  /\ Cardinality(bahan_cocok(saya, row)) > 0

\* lines 53-56 and 83: round(skor_cocok * 100, 2), in hundredths of a
\* percent; skor_cocok is 0 for a recipe without ingredients. With fewer than
\* 32 ingredients no quotient lies halfway between two hundredths, so the
\* rounding mode of round() plays no part.
skor_cocok_persen(saya, row) ==
  LET m == Cardinality(bahan_cocok(saya, row))
      n == Cardinality(bahan_resep_set(row))
  IN  IF n > 0 THEN (20000 * m + n) \div (2 * n) ELSE 0

\* line 66
antecedent(aturan, i) == Range(split(aturan[i][1], {","}))

consequent(aturan, i) == aturan[i][2]

\* Line 71 without its second condition.
aturan_terpicu_tanpa_resep(saya, row, aturan, i, dipakai) ==
  /\ antecedent(aturan, i) \subseteq bahan_cocok(saya, row)
  /\ consequent(aturan, i) \notin {consequent(aturan, dipakai[k]) : k \in DOMAIN dipakai}

\* line 71: the three conditions under which rule i yields a suggestion,
\* dipakai being the rules that already did for this recipe.
aturan_terpicu(saya, row, aturan, i, dipakai) ==
  /\ antecedent(aturan, i) \subseteq bahan_cocok(saya, row)
  /\ consequent(aturan, i) \notin bahan_resep_set(row)
  /\ consequent(aturan, i) \notin {consequent(aturan, dipakai[k]) : k \in DOMAIN dipakai}

\* The loop without the break of lines 77-78.
RECURSIVE saran_loop_tanpa_batas(_, _, _, _, _)
saran_loop_tanpa_batas(saya, row, aturan, i, dipakai) ==
  IF i > Len(aturan) THEN dipakai
  ELSE IF aturan_terpicu_tanpa_resep(saya, row, aturan, i, dipakai)
            /\ consequent(aturan, i) \notin bahan_resep_set(row)
       THEN saran_loop_tanpa_batas(saya, row, aturan, i + 1, Append(dipakai, i))
       ELSE saran_loop_tanpa_batas(saya, row, aturan, i + 1, dipakai)

\* lines 62-78: the loop over aturan_asosiasi.items() from entry i on;
\* returns the indices of the rules that gave a suggestion, in order.
RECURSIVE saran_loop(_, _, _, _, _)
saran_loop(saya, row, aturan, i, dipakai) ==
  IF i > Len(aturan) THEN dipakai
  ELSE IF aturan_terpicu(saya, row, aturan, i, dipakai)
       THEN LET baru == Append(dipakai, i)
            IN  IF Len(baru) >= BatasSaran THEN baru
                ELSE saran_loop(saya, row, aturan, i + 1, baru)
       ELSE saran_loop(saya, row, aturan, i + 1, dipakai)

aturan_dipakai(saya, row, aturan) == saran_loop(saya, row, aturan, 1, <<>>)

\* The backquote character of the f-string below, which a TLA+ string
\* cannot hold.
backquote == "[backquote]"

\* line 72: the f-string; the literal parts are kept as single tokens.
saran(aturan, i, seed) ==
  <<backquote>> \o join(iter_set(antecedent(aturan, i), seed), <<",", " ">>)
    \o <<backquote, " banyak digunakan dengan **", backquote>>
    \o consequent(aturan, i)
    \o <<backquote, "**, Anda mungkin juga tertarik untuk membeli **", backquote>>
    \o consequent(aturan, i)
    \o <<backquote, "** sebagai pelengkap.">>

saran_cerdas_list(saya, row, aturan, seed) ==
  LET dipakai == aturan_dipakai(saya, row, aturan)
  IN  [k \in DOMAIN dipakai |-> saran(aturan, dipakai[k], seed)]

\* lines 80-87
rekomendasi_baris(saya, row, aturan, seed) ==
  [judul_resep |-> row.judul_resep,
   url_sumber |-> row.url_sumber,
   skor_cocok_persen |-> skor_cocok_persen(saya, row),
   bahan_kurang |-> sorted(bahan_kurang(saya, row)),
   cluster_persona |-> row.cluster_persona,
   saran_cerdas |-> saran_cerdas_list(saya, row, aturan, seed)]

\* lines 44, 58, 88: the rows appended to hasil_rekomendasi, in catalogue order.
hasil_rekomendasi(saya, df) ==
  SelectSeq([i \in DOMAIN df |-> i], LAMBDA i : skor_positif(saya, df[i]))

\* An insertion that puts a row before the rows of equal key: a sort that
\* is not stable.
RECURSIVE sisip_tak_stabil(_, _, _, _)
sisip_tak_stabil(saya, df, urut, i) ==
  IF urut = <<>> THEN <<i>>
  ELSE IF skor_cocok_persen(saya, df[Head(urut)]) > skor_cocok_persen(saya, df[i])
       THEN <<Head(urut)>> \o sisip_tak_stabil(saya, df, Tail(urut), i)
       ELSE <<i>> \o urut

\* line 90: sorted(..., key=skor_cocok_persen, reverse=True). The sort of Python is
\* stable, also under reverse=True: a row goes behind every row whose key is
\* greater or equal and that came before it.
RECURSIVE sisip(_, _, _, _)
sisip(saya, df, urut, i) ==
  IF urut = <<>> THEN <<i>>
  ELSE IF skor_cocok_persen(saya, df[Head(urut)]) >= skor_cocok_persen(saya, df[i])
       THEN <<Head(urut)>> \o sisip(saya, df, Tail(urut), i)
       ELSE <<i>> \o urut

RECURSIVE urutkan(_, _, _, _)
urutkan(saya, df, hasil, urut) ==
  IF hasil = <<>> THEN urut
  ELSE urutkan(saya, df, Tail(hasil), sisip(saya, df, urut, Head(hasil)))

\* Line 90 left out: the rows in catalogue order.
hasil_rekomendasi_tak_urut(saya, df) == hasil_rekomendasi(saya, df)

hasil_rekomendasi_urut(saya, df) == urutkan(saya, df, hasil_rekomendasi(saya, df), <<>>)

\* line 91: the rows returned, by catalogue index.
baris_terpilih(saya, df, n) == slice_to(hasil_rekomendasi_urut(saya, df), n)

rekomendasi_resep(saya, df, aturan, n, seed) ==
  LET baris == baris_terpilih(saya, df, n)
  IN  [k \in DOMAIN baris |-> rekomendasi_baris(saya, df[baris[k]], aturan, seed)]

\* For each returned entry, its catalogue row and the rules behind its suggestions.
jejak_panggilan(saya, df, aturan, n) ==
  LET baris == baris_terpilih(saya, df, n)
  IN  [k \in DOMAIN baris |->
         [baris |-> baris[k], aturan |-> aturan_dipakai(saya, df[baris[k]], aturan)]]

-----------------------------------------------------------------------------
(* Input domains *)

SeqUpTo(S, n) == UNION {[1..k -> S] : k \in 0..n}

\* Catalogue rows as muat_data leaves them: bahan is the parsed list of the
\* column 'bahan-bahan'. It may repeat an ingredient, be empty, hold an empty
\* string or a capital letter: the engine does not normalise it.
Resep1 == [judul_resep |-> "nasi goreng", url_sumber |-> "u1",
           bahan |-> << <<"a">>, <<"b">>, <<"a">> >>, cluster_persona |-> "k1"]

Resep2 == [judul_resep |-> "soto", url_sumber |-> "u2",
           bahan |-> << <<"c">>, <<"b">>, <<"a">> >>, cluster_persona |-> "k2"]

Resep3 == [judul_resep |-> "rendang", url_sumber |-> "u3",
           bahan |-> << <<>>, <<"b">>, <<"A">> >>, cluster_persona |-> "k1"]

Resep0 == [judul_resep |-> "air putih", url_sumber |-> "u0",
           bahan |-> <<>>, cluster_persona |-> "k2"]

Resep == {Resep0, Resep1, Resep2, Resep3}

\* Rule entries: <<key, consequent>>, the key a comma-joined antecedent.
Aturan1 == << <<"a">>, <<"c">> >>

Aturan2 == << <<"b">>, <<"d">> >>

Aturan3 == << <<"a", ",", "b">>, <<"e">> >>

Aturan4 == << <<>>, <<"d">> >>

Aturan == {Aturan1, Aturan2, Aturan3, Aturan4}

\* A dict holds each key once.
TabelAturan(n) ==
  {t \in SeqUpTo(Aturan, n) : \A i, j \in DOMAIN t : t[i][1] = t[j][1] => i = j}

TabelContoh == <<Aturan1, Aturan2, Aturan3, Aturan4>>

KatalogContoh == <<Resep1, Resep2, Resep3>>

\* Raw entries of bahan_saya: "a", " B", " ".
BahanMentah == { <<"a">>, <<" ", "B">>, <<" ">> }

\* Characters typed into the text area.
Alfabet == {"a", "A", "b", " ", ",", "\n"}

TopNDefault == 5

-----------------------------------------------------------------------------
(* Actions *)

\* One call rekomendasi_resep(bahan_saya, df_resep, aturan_asosiasi, top_n).
Panggil ==
  /\ pc \in {"siap", "selesai"}
  /\ rekomendasi' = rekomendasi_resep(bahan_saya, df_resep, aturan_asosiasi, top_n, hashseed)
  /\ jejak' = jejak_panggilan(bahan_saya, df_resep, aturan_asosiasi, top_n)
  /\ sebelum' = IF pc = "selesai" THEN <<rekomendasi>> ELSE sebelum
  /\ pc' = "selesai"
  /\ UNCHANGED <<df_resep, aturan_asosiasi, hashseed, input_bahan_str, bahan_saya, top_n>>

\* The interpreter is started anew: muat_data loads the same files, the hash
\* seed is drawn again.
MulaiUlang ==
  /\ pc = "selesai"
  /\ hashseed' \in Seeds
  /\ sebelum' = <<rekomendasi>>
  /\ rekomendasi' = <<>>
  /\ jejak' = <<>>
  /\ pc' = "siap"
  /\ UNCHANGED <<df_resep, aturan_asosiasi, input_bahan_str, bahan_saya, top_n>>

\* The user types one more character; the rerun of the script shows the form
\* without results (lines 119, 126).
Ketik ==
  /\ Len(input_bahan_str) < MaxLen
  /\ \E c \in Alfabet : input_bahan_str' = Append(input_bahan_str, c)
  /\ pc' = "siap"
  /\ bahan_saya' = <<>>
  /\ rekomendasi' = <<>>
  /\ jejak' = <<>>
  /\ sebelum' = <<>>
  /\ UNCHANGED <<df_resep, aturan_asosiasi, hashseed, top_n>>

\* The search button, lines 126-135.
CariResep ==
  IF strip(input_bahan_str) = <<>>
  THEN /\ pc' = "peringatan"
       /\ bahan_saya' = <<>>
       /\ rekomendasi' = <<>>
       /\ jejak' = <<>>
       /\ sebelum' = <<>>
       /\ UNCHANGED <<df_resep, aturan_asosiasi, hashseed, input_bahan_str, top_n>>
  ELSE LET bahan_pengguna == normalisasi(input_bahan_str)
       IN  /\ bahan_saya' = bahan_pengguna
           /\ top_n' = TopNDefault
           /\ rekomendasi' = rekomendasi_resep(bahan_pengguna, df_resep, aturan_asosiasi,
                                               TopNDefault, hashseed)
           /\ jejak' = jejak_panggilan(bahan_pengguna, df_resep, aturan_asosiasi, TopNDefault)
           /\ sebelum' = IF pc = "selesai" THEN <<rekomendasi>> ELSE <<>>
           /\ pc' = "selesai"
           /\ UNCHANGED <<df_resep, aturan_asosiasi, hashseed, input_bahan_str>>

-----------------------------------------------------------------------------
(* Specifications *)

InitUmum ==
  /\ hashseed \in Seeds
  /\ input_bahan_str = <<>>
  /\ pc = "siap"
  /\ rekomendasi = <<>>
  /\ jejak = <<>>
  /\ sebelum = <<>>

\* rekomendasi_resep as a function of its arguments: ranking and truncation.
Init ==
  /\ InitUmum
  /\ df_resep \in SeqUpTo(Resep, MaxRecipes)
  /\ aturan_asosiasi \in {<<>>, TabelContoh}
  /\ bahan_saya \in SeqUpTo(BahanMentah, MaxUser)
  /\ top_n \in (0 - MaxNeg)..MaxTopN

Next == Panggil

Spec == Init /\ [][Next]_vars

\* rekomendasi_resep over rule tables, in one process and across restarts.
InitSaran ==
  /\ InitUmum
  /\ df_resep \in SeqUpTo(Resep, MaxResepSaran)
  /\ aturan_asosiasi \in TabelAturan(MaxRules)
  /\ bahan_saya \in SeqUpTo(BahanMentah, MaxUser)
  /\ top_n = TopNDefault

NextSaran == Panggil \/ MulaiUlang

SpecSaran == InitSaran /\ [][NextSaran]_vars

\* The page: text area and search button over the loaded data.
InitUI ==
  /\ InitUmum
  /\ df_resep = KatalogContoh
  /\ aturan_asosiasi = TabelContoh
  /\ bahan_saya = <<>>
  /\ top_n = TopNDefault

NextUI == Ketik \/ CariResep

SpecUI == InitUI /\ [][NextUI]_vars

-----------------------------------------------------------------------------
(* Vocabulary of the properties *)

Selesai == pc = "selesai"

\* The normalised user ingredient set.
PenggunaNormal == {lower(strip(bahan_saya[i])) : i \in DOMAIN bahan_saya}

\* The ingredient set of catalogue row i.
BahanResep(i) == {df_resep[i].bahan[j] : j \in DOMAIN df_resep[i].bahan}

\* The rows that share an ingredient with the user.
Kandidat == {i \in DOMAIN df_resep : BahanResep(i) \cap PenggunaNormal # {}}

\* p is the score of row i in hundredths of a percent: the hundredth nearest
\* to 100 * |matched| / |recipe|.
AdalahPersen(i, p) ==
  LET m == Cardinality(BahanResep(i) \cap PenggunaNormal)
      n == Cardinality(BahanResep(i))
  IN  2 * n * p - n <= 20000 * m /\ 20000 * m < 2 * n * p + n

\* The score of row i, rounded, is at most p.
PersenPalingBanyak(i, p) ==
  LET m == Cardinality(BahanResep(i) \cap PenggunaNormal)
      n == Cardinality(BahanResep(i))
  IN  20000 * m < 2 * n * p + n

\* Row i matches a smaller share of its ingredients than row j.
SkorLebihKecil(i, j) ==
  Cardinality(BahanResep(i) \cap PenggunaNormal) * Cardinality(BahanResep(j))
    < Cardinality(BahanResep(j) \cap PenggunaNormal) * Cardinality(BahanResep(i))

\* Entry k of the output is built from the catalogue row the trace names.
EntriDariBaris(k) ==
  LET row == df_resep[jejak[k].baris]
  IN  /\ rekomendasi[k].judul_resep = row.judul_resep
      /\ rekomendasi[k].url_sumber = row.url_sumber
      /\ rekomendasi[k].cluster_persona = row.cluster_persona
      /\ AdalahPersen(jejak[k].baris, rekomendasi[k].skor_cocok_persen)

JejakCocok ==
  /\ DOMAIN jejak = DOMAIN rekomendasi
  /\ \A k \in DOMAIN rekomendasi :
       /\ jejak[k].baris \in DOMAIN df_resep
       /\ EntriDariBaris(k)

-----------------------------------------------------------------------------
(* Ranking and truncation, under Spec *)

\* C1: every call with top_n <= 0 returns the empty list.
C1_NonPositiveTopNEmpty ==
  (Selesai /\ top_n <= 0) => rekomendasi = <<>>

\* C2: for top_n >= 1 the output has at most top_n entries, is ordered by
\* skor_cocok_persen non-increasing, and entries of equal score keep the
\* relative order of their rows in the catalogue.
C2_SortedStableCapped ==
  (Selesai /\ top_n >= 1) =>
     /\ JejakCocok
     /\ Len(rekomendasi) <= top_n
     /\ \A i, j \in DOMAIN rekomendasi :
          i < j =>
            /\ rekomendasi[i].skor_cocok_persen >= rekomendasi[j].skor_cocok_persen
            /\ rekomendasi[i].skor_cocok_persen = rekomendasi[j].skor_cocok_persen
                 => jejak[i].baris < jejak[j].baris

\* Two different recipes are returned with the same score.
C2_Witness ==
  /\ Selesai /\ top_n >= 1
  /\ Len(rekomendasi) = 2
  /\ rekomendasi[1].skor_cocok_persen = rekomendasi[2].skor_cocok_persen
  /\ rekomendasi[1].judul_resep # rekomendasi[2].judul_resep

\* C3: no recipe whose ingredient set is disjoint from the normalised user
\* set (an empty ingredient set included) is in the output; an empty user set
\* or an empty catalogue gives an empty output.
C3_NoDisjointRecipe ==
  Selesai =>
     /\ DOMAIN jejak = DOMAIN rekomendasi
     /\ \A k \in DOMAIN rekomendasi :
          /\ jejak[k].baris \in DOMAIN df_resep
          /\ rekomendasi[k].judul_resep = df_resep[jejak[k].baris].judul_resep
          /\ BahanResep(jejak[k].baris) \cap PenggunaNormal # {}
     /\ (PenggunaNormal = {} \/ df_resep = <<>>) => rekomendasi = <<>>

\* One row is returned while the other, a recipe without ingredients, is not.
C3_Witness ==
  /\ Selesai
  /\ Len(rekomendasi) = 1
  /\ Len(df_resep) = 2
  /\ \E i \in DOMAIN df_resep : BahanResep(i) = {}

\* C4: bahan_kurang of every entry is the recipe's ingredient set minus the
\* normalised user set, in strictly ascending lexicographic order, and
\* holds no element of the user set.
C4_MissingIngredients ==
  Selesai =>
     /\ DOMAIN jejak = DOMAIN rekomendasi
     /\ \A k \in DOMAIN rekomendasi :
          LET kurang == rekomendasi[k].bahan_kurang
          IN  /\ {kurang[j] : j \in DOMAIN kurang}
                   = BahanResep(jejak[k].baris) \ PenggunaNormal
              /\ \A j \in 1..(Len(kurang) - 1) : StrLess(kurang[j], kurang[j + 1])
              /\ \A j \in DOMAIN kurang : kurang[j] \notin PenggunaNormal

\* Two ingredients are missing, listed in another order than the catalogue
\* holds them, and the user gave an entry that normalisation changes.
C4_Witness ==
  /\ Selesai
  /\ <<" ", "B">> \in {bahan_saya[i] : i \in DOMAIN bahan_saya}
  /\ \E k \in DOMAIN rekomendasi :
       rekomendasi[k].bahan_kurang = << <<"a">>, <<"c">> >>

\* C10: for top_n >= 1 the output has exactly min(top_n, k) entries, k the
\* number of rows sharing an ingredient with the user; no row is returned
\* twice; no row left out scores higher than a returned entry.
C10_TopNComplete ==
  (Selesai /\ top_n >= 1) =>
     /\ JejakCocok
     /\ Len(rekomendasi) = Min(top_n, Cardinality(Kandidat))
     /\ \A i, j \in DOMAIN jejak : jejak[i].baris = jejak[j].baris => i = j
     /\ \A i \in Kandidat :
          i \notin {jejak[k].baris : k \in DOMAIN jejak} =>
            \A k \in DOMAIN rekomendasi :
              PersenPalingBanyak(i, rekomendasi[k].skor_cocok_persen)

\* One of two candidates is cut off, the better one standing second in the catalogue.
C10_Witness ==
  /\ Selesai /\ top_n = 1
  /\ Cardinality(Kandidat) = 2
  /\ Len(rekomendasi) = 1
  /\ jejak[1].baris = 2
  /\ SkorLebihKecil(1, 2)

-----------------------------------------------------------------------------
(* Smart suggestions, under SpecSaran *)

\* What the user has of row b.
Cocok(b) == BahanResep(b) \cap PenggunaNormal

\* The antecedent and the consequent of entry i of the rule table.
Anteseden(i) ==
  LET potongan == split(aturan_asosiasi[i][1], {","})
  IN  {potongan[j] : j \in DOMAIN potongan}

Konsekuen(i) == aturan_asosiasi[i][2]

\* The consequent a suggestion text names: what stands between the
\* backquotes after "banyak digunakan dengan".
KonsekuenDisebut(teks) ==
  LET p == CHOOSE i \in DOMAIN teks : teks[i] = " banyak digunakan dengan **"
      q == CHOOSE i \in DOMAIN teks :
             teks[i] = "**, Anda mungkin juga tertarik untuk membeli **"
  IN  SubSeq(teks, p + 2, q - 2)

\* The ingredients a suggestion text names as antecedent.
AntesedenDisebut(teks) ==
  LET p == CHOOSE i \in DOMAIN teks : teks[i] = " banyak digunakan dengan **"
      potongan == split(SubSeq(teks, 2, p - 2), {","})
  IN  {strip(potongan[j]) : j \in DOMAIN potongan}

\* Rule i is triggered by what the user has of row b and proposes something
\* the recipe does not hold.
Terpicu(b, i) == Anteseden(i) \subseteq Cocok(b) /\ Konsekuen(i) \notin BahanResep(b)

\* The triggered rules of row b that are the first to propose their consequent.
Layak(b) ==
  {i \in DOMAIN aturan_asosiasi :
     /\ Terpicu(b, i)
     /\ \A j \in 1..(i - 1) : Terpicu(b, j) => Konsekuen(j) # Konsekuen(i)}

\* C5: every entry has at most 2 suggestions, none names a consequent that is
\* an ingredient of the recipe, and no two of one entry name the same consequent.
C5_SuggestionBounds ==
  Selesai =>
     /\ DOMAIN jejak = DOMAIN rekomendasi
     /\ \A k \in DOMAIN rekomendasi :
          LET daftar == rekomendasi[k].saran_cerdas
          IN  /\ Len(daftar) <= 2
              /\ \A j \in DOMAIN daftar :
                   KonsekuenDisebut(daftar[j]) \notin BahanResep(jejak[k].baris)
              /\ \A i, j \in DOMAIN daftar :
                   KonsekuenDisebut(daftar[i]) = KonsekuenDisebut(daftar[j]) => i = j

\* An entry carries two suggestions while a rule whose antecedent the user
\* matched is held back because the recipe holds its consequent.
C5_Witness ==
  /\ Selesai
  /\ \E k \in DOMAIN rekomendasi :
       /\ Len(rekomendasi[k].saran_cerdas) = 2
       /\ \E i \in DOMAIN aturan_asosiasi :
            /\ Anteseden(i) \subseteq Cocok(jejak[k].baris)
            /\ Konsekuen(i) \in BahanResep(jejak[k].baris)

\* A rule key is malformed when it splits to no real ingredient.
Cacat(i) == \A f \in Anteseden(i) : strip(f) = <<>>

\* C6: a malformed rule entry never produces a suggestion, and the rows
\* returned are those the catalogue and the user input alone decide.
C6_MalformedRuleSkipped ==
  Selesai =>
     /\ \A k \in DOMAIN jejak :
          \A j \in DOMAIN jejak[k].aturan : ~Cacat(jejak[k].aturan[j])
     /\ {jejak[k].baris : k \in DOMAIN jejak} \subseteq Kandidat
     /\ Len(rekomendasi) = Min(top_n, Cardinality(Kandidat))

\* C7: a call returns what the previous call with the same arguments returned.
C7_Determinism ==
  (Selesai /\ sebelum # <<>>) => rekomendasi = sebelum[1]

\* C9: the suggestions of an entry are, in table order, the first up to 2
\* rules whose antecedent is within the matched ingredients, whose
\* consequent is not in the recipe and was not proposed by an earlier rule.
C9_GreedyFirstFit ==
  Selesai =>
     /\ DOMAIN jejak = DOMAIN rekomendasi
     /\ \A k \in DOMAIN rekomendasi :
          LET b == jejak[k].baris
              pilih == jejak[k].aturan
              daftar == rekomendasi[k].saran_cerdas
          IN  /\ Len(pilih) = Min(2, Cardinality(Layak(b)))
              /\ \A j \in DOMAIN pilih : pilih[j] \in Layak(b)
              /\ \A j \in 1..(Len(pilih) - 1) : pilih[j] < pilih[j + 1]
              /\ \A i \in Layak(b) :
                   (\E j \in DOMAIN pilih : i < pilih[j]) => \E j \in DOMAIN pilih : i = pilih[j]
              /\ DOMAIN daftar = DOMAIN pilih
              /\ \A j \in DOMAIN daftar :
                   /\ KonsekuenDisebut(daftar[j]) = Konsekuen(pilih[j])
                   /\ AntesedenDisebut(daftar[j]) = Anteseden(pilih[j])

\* Three rules qualify for one entry, so the cap cuts the third off.
C9_Witness ==
  /\ Selesai
  /\ \E k \in DOMAIN rekomendasi :
       /\ Cardinality(Layak(jejak[k].baris)) = 3
       /\ Len(rekomendasi[k].saran_cerdas) = 2

-----------------------------------------------------------------------------
(* The normaliser, under SpecUI *)

Pemisah == {",", "\n"}

\* Positions of s that hold neither a separator nor whitespace.
Padat(s) == {i \in DOMAIN s : s[i] \notin Pemisah \cup {" "}}

\* No separator stands between positions i and j.
Sefragmen(s, i, j) == \A m \in Min(i, j)..Max(i, j) : s[m] \notin Pemisah

\* The first solid position of every fragment that has one.
Awal(s) == {i \in Padat(s) : \A j \in Padat(s) : j < i => ~Sefragmen(s, j, i)}

\* The last solid position of the fragment of position i.
Akhir(s, i) ==
  CHOOSE j \in Padat(s) :
     /\ Sefragmen(s, i, j)
     /\ \A m \in Padat(s) : Sefragmen(s, i, m) => m <= j

HurufKecil(c) == CASE c = "A" -> "a" [] c = "B" -> "b" [] OTHER -> c

\* hasil is what the normaliser owes for the text s: one token per fragment
\* with a solid character, in text order, duplicates kept; each token the
\* fragment from its first to its last solid character, in lowercase.
Ternormalisasi(s, hasil) ==
  /\ Len(hasil) = Cardinality(Awal(s))
  /\ \A k \in DOMAIN hasil :
       LET a == CHOOSE i \in Awal(s) : Cardinality({j \in Awal(s) : j <= i}) = k
           z == Akhir(s, a)
       IN  /\ hasil[k] = [m \in 1..(z - a + 1) |-> HurufKecil(s[a + m - 1])]
           /\ hasil[k] # <<>>
           /\ hasil[k][1] # " " /\ hasil[k][Len(hasil[k])] # " "
           /\ \A m \in DOMAIN hasil[k] : hasil[k][m] \notin {"A", "B", ",", "\n"}
  /\ Padat(s) = {} => hasil = <<>>

\* C8: for every text the normaliser returns the trimmed, lowercase,
\* non-empty tokens in input order with duplicates kept, and the empty
\* sequence for a text of separators and whitespace only; the search handler
\* passes that sequence on.
C8_Normalizer ==
  /\ Ternormalisasi(input_bahan_str, normalisasi(input_bahan_str))
  /\ Selesai => Ternormalisasi(input_bahan_str, bahan_saya)

\* The handler ran on a text with a capital letter and a blank, and passed
\* the same token on twice.
C8_Witness ==
  /\ Selesai
  /\ Len(bahan_saya) = 2
  /\ bahan_saya[1] = bahan_saya[2]
  /\ {"A", " "} \subseteq {input_bahan_str[i] : i \in DOMAIN input_bahan_str}

====
